---- MODULE Spec2Model ----
(***************************************************************************)
(* Strategy evaluation and consensus engine of SOLANA_SNIPER_BOT:          *)
(*   src/strategies/trading_strategies.py  (TradingStrategy and variants)  *)
(*   src/strategies/strategy_manager.py    (StrategyManager)               *)
(*                                                                         *)
(* Python values are modelled as follows.                                  *)
(*   dict          a function; its DOMAIN is the set of keys present       *)
(*   list          a sequence (1-based here, 0-based in Python)            *)
(*   None / value  the sequences << >> and <<value>>                       *)
(*   float         an exact rational [num, den]; den = 0 is nan            *)
(*   f-string      its template text (the formatted numbers are carried    *)
(*                 by the other keys of the same dict)                     *)
(*   exception     a result record with raised = TRUE                      *)
(* Prices are small integers, so every mean computed here is exact in      *)
(* float64 arithmetic as well.                                             *)
(***************************************************************************)
EXTENDS Integers, Sequences, FiniteSets, TLC

VARIABLES
    strategies,         \* StrategyManager.strategies: name -> strategy object
    active_strategies,  \* StrategyManager.active_strategies: list of names
    market_data,        \* StrategyManager.market_data: the stored snapshot
    last_update,        \* StrategyManager.last_update: None or a clock reading
    active,             \* TradingStrategy.active of every strategy object
    last_signal,        \* TradingStrategy.last_signal of every strategy object
    call,               \* the latest call of the run: <<operation, [arguments and result]>>
    calls_left,         \* how many more calls the callers make
    instance            \* a strategy object used on its own, without a manager

vars == <<strategies, active_strategies, market_data, last_update,
          active, last_signal, call, calls_left, instance>>

(***************************************************************************)
(* Bounds of the model.                                                    *)
(***************************************************************************)
MaxLen == 3      \* longest price history in a snapshot
MaxPrice == 2    \* prices range over 1..MaxPrice
MaxCalls == 6    \* calls made on a fresh manager
MaxCallsAfterSetup == 2   \* calls made on a manager that has been set up
MaxWindow == 3   \* largest window, period or lookback given to a constructor
MaxBars == 4     \* longest price history fed to a strategy used on its own
MaxSample == 3   \* the prices of that history range over 1..MaxSample
MaxRounds == 2   \* evaluation rounds of a strategy used on its own
MaxCallsWithDefaults == 4   \* calls on a manager that may create its defaults

(***************************************************************************)
(* Python built-ins used by the source.                                    *)
(***************************************************************************)
None == << >>

Some(v) == <<v>>

Min2(a, b) == IF a < b THEN a ELSE b

Max2(a, b) == IF a > b THEN a ELSE b

Abs(a) == IF a < 0 THEN -a ELSE a

\* d.get(k, [])
Get(d, k) == IF k \in DOMAIN d THEN d[k] ELSE << >>

\* d[k] = v
DictSet(d, k, v) == [x \in DOMAIN d \cup {k} |-> IF x = k THEN v ELSE d[x]]

\* del d[k]
DictDel(d, k) == [x \in DOMAIN d \ {k} |-> d[x]]

\* x in list
InList(s, x) == \E i \in 1..Len(s) : s[i] = x

\* list.remove(x): drops the first occurrence of x
ListRemove(s, x) ==
    LET first == CHOOSE i \in 1..Len(s) : s[i] = x /\ \A j \in 1..(i-1) : s[j] # x
    IN [i \in 1..(Len(s)-1) |-> IF i < first THEN s[i] ELSE s[i+1]]

\* a slice bound i of a list of length n, as Python clamps it
SliceBound(i, n) == IF i < 0 THEN Max2(i + n, 0) ELSE Min2(i, n)

\* s[a:b], with 0-based and negative bounds
Slice(s, a, b) ==
    LET lo == SliceBound(a, Len(s))
        hi == SliceBound(b, Len(s))
    IN IF hi <= lo THEN << >> ELSE [i \in 1..(hi - lo) |-> s[lo + i]]

\* s[a:]
SliceFrom(s, a) == Slice(s, a, Len(s))

\* whether s[i] exists (otherwise s[i] raises IndexError)
HasIndex(s, i) == IF i < 0 THEN -i <= Len(s) ELSE i < Len(s)

\* s[i] for a 0-based or negative i
At(s, i) == IF i < 0 THEN s[Len(s) + i + 1] ELSE s[i + 1]

RECURSIVE Sum(_)
Sum(s) == IF Len(s) = 0 THEN 0 ELSE s[1] + Sum(Tail(s))

(***************************************************************************)
(* numpy on lists of numbers.                                              *)
(***************************************************************************)
Rat(n, d) == [num |-> n, den |-> d]

\* np.mean(s); the mean of an empty list is nan
Mean(s) == Rat(Sum(s), Len(s))

IsNan(a) == a.den = 0

\* comparisons of floats; every comparison with nan is False
Gt(a, b) == ~IsNan(a) /\ ~IsNan(b) /\ a.num * b.den > b.num * a.den

Lt(a, b) == Gt(b, a)

Ge(a, b) == ~IsNan(a) /\ ~IsNan(b) /\ a.num * b.den >= b.num * a.den

Le(a, b) == Ge(b, a)

\* np.diff(s)
Diff(s) == [i \in 1..(Len(s) - 1) |-> s[i+1] - s[i]]

\* np.clip(s, 0, None)
ClipLow(s) == [i \in 1..Len(s) |-> Max2(s[i], 0)]

\* -np.clip(s, None, 0)
NegClipHigh(s) == [i \in 1..Len(s) |-> -Min2(s[i], 0)]

\* datetime.now(): the clock is read as an opaque value
Now == "datetime.now()"

\* a reading of the clock taken at another moment
Later == "datetime.now(), later"

ClockReadings == {Now, Later}

\* t.isoformat()
Isoformat(t) == <<"isoformat", t>>

(***************************************************************************)
(* trading_strategies.py: the strategy classes.  A strategy object is a    *)
(* record of the attributes fixed at construction; its mutable attributes  *)
(* active and last_signal live in the variables of the same names.         *)
(***************************************************************************)
Returned(signal) == [raised |-> FALSE, signal |-> signal]

Raised(exception) == [raised |-> TRUE, exception |-> exception]

InsufficientData == [signal |-> "HOLD", reason |-> "Insufficient data"]

\* TradingStrategy.__init__
TradingStrategy(name, config) ==
    [cls |-> "TradingStrategy", name |-> name, config |-> config]

\* TradingStrategy.analyze
TradingStrategy_analyze(self, data, t) == Raised("NotImplementedError")

\* a constructor that takes the name from the config when it has one
MovingAverageCrossover_ConfigName(short_window, long_window, config) ==
    [cls |-> "MovingAverageCrossover",
     name |-> IF "name" \in DOMAIN config THEN config.name ELSE "MA Crossover",
     config |-> config,
     short_window |-> short_window, long_window |-> long_window]

\* MovingAverageCrossover.__init__
MovingAverageCrossover(short_window, long_window, config) ==
    [cls |-> "MovingAverageCrossover", name |-> "MA Crossover", config |-> config,
     short_window |-> short_window, long_window |-> long_window]

\* the guard that compares the history with the short window
MovingAverageCrossover_insufficient_ShortWindow(self, prices) ==
    Len(prices) < self.short_window

\* the guard of MovingAverageCrossover.analyze that takes the insufficient-data path
MovingAverageCrossover_insufficient(self, prices) == Len(prices) < self.long_window

\* MovingAverageCrossover.analyze
MovingAverageCrossover_analyze(self, data, t) ==
    LET prices == Get(data, "prices")
        short_ma == Mean(SliceFrom(prices, -self.short_window))
        long_ma == Mean(SliceFrom(prices, -self.long_window))
        prev_short_ma == Mean(Slice(prices, -self.short_window - 1, -1))
        prev_long_ma == Mean(Slice(prices, -self.long_window - 1, -1))
        buy == Gt(short_ma, long_ma) /\ Le(prev_short_ma, prev_long_ma)
        sell == Lt(short_ma, long_ma) /\ Ge(prev_short_ma, prev_long_ma)
    IN IF MovingAverageCrossover_insufficient(self, prices)
       THEN Returned(InsufficientData)
       ELSE Returned(
            [signal |-> IF buy THEN "BUY" ELSE IF sell THEN "SELL" ELSE "HOLD",
             reason |-> IF buy
                        THEN "Short MA ({short_ma:.2f}) crossed above Long MA ({long_ma:.2f})"
                        ELSE IF sell
                        THEN "Short MA ({short_ma:.2f}) crossed below Long MA ({long_ma:.2f})"
                        ELSE "No crossover detected",
             short_ma |-> short_ma,
             long_ma |-> long_ma,
             timestamp |-> Isoformat(t)])

\* RSIStrategy.__init__
RSIStrategy(period, oversold, overbought, config) ==
    [cls |-> "RSIStrategy", name |-> "RSI Strategy", config |-> config,
     period |-> period, oversold |-> oversold, overbought |-> overbought]

\* RSIStrategy.calculate_rsi: 100 - 100/(1 + avg_gain/avg_loss) is
\* 100 * avg_gain / (avg_gain + avg_loss); both averages are over the same
\* number of deltas, so the sums stand for them.
calculate_rsi(self, prices) ==
    LET deltas == Diff(prices)
        gains == ClipLow(deltas)
        losses == NegClipHigh(deltas)
        avg_gain == Mean(SliceFrom(gains, -self.period))
        avg_loss == Mean(SliceFrom(losses, -self.period))
    IN IF Len(prices) <= self.period THEN Rat(50, 1)
       ELSE IF IsNan(avg_loss) THEN Rat(0, 0)
       ELSE IF avg_loss.num = 0 THEN Rat(100, 1)
       ELSE Rat(100 * avg_gain.num, avg_gain.num + avg_loss.num)

\* the guard of RSIStrategy.analyze that takes the insufficient-data path
RSIStrategy_insufficient(self, prices) == Len(prices) <= self.period

\* RSIStrategy.analyze that signals for as long as the RSI is beyond a threshold
RSIStrategy_analyze_LevelTriggered(self, data, t) ==
    LET prices == Get(data, "prices")
        current_rsi == calculate_rsi(self, prices)
        oversold == Rat(self.oversold, 1)
        overbought == Rat(self.overbought, 1)
        buy == Lt(current_rsi, oversold)
        sell == Gt(current_rsi, overbought)
    IN IF RSIStrategy_insufficient(self, prices)
       THEN Returned(InsufficientData)
       ELSE Returned(
            [signal |-> IF buy THEN "BUY" ELSE IF sell THEN "SELL" ELSE "HOLD",
             reason |-> IF buy THEN "RSI ({current_rsi:.2f}) entered oversold territory"
                        ELSE IF sell
                        THEN "RSI ({current_rsi:.2f}) entered overbought territory"
                        ELSE "RSI ({current_rsi:.2f}) not at extreme levels",
             rsi |-> current_rsi,
             timestamp |-> Isoformat(t)])

\* RSIStrategy.analyze
RSIStrategy_analyze(self, data, t) ==
    LET prices == Get(data, "prices")
        current_rsi == calculate_rsi(self, prices)
        prev_rsi == calculate_rsi(self, Slice(prices, 0, -1))
        oversold == Rat(self.oversold, 1)
        overbought == Rat(self.overbought, 1)
        buy == Lt(current_rsi, oversold) /\ Ge(prev_rsi, oversold)
        sell == Gt(current_rsi, overbought) /\ Le(prev_rsi, overbought)
    IN IF RSIStrategy_insufficient(self, prices)
       THEN Returned(InsufficientData)
       ELSE Returned(
            [signal |-> IF buy THEN "BUY" ELSE IF sell THEN "SELL" ELSE "HOLD",
             reason |-> IF buy THEN "RSI ({current_rsi:.2f}) entered oversold territory"
                        ELSE IF sell
                        THEN "RSI ({current_rsi:.2f}) entered overbought territory"
                        ELSE "RSI ({current_rsi:.2f}) not at extreme levels",
             rsi |-> current_rsi,
             timestamp |-> Isoformat(t)])

\* VolatilityBreakout.__init__
VolatilityBreakout(lookback_period, volatility_factor, config) ==
    [cls |-> "VolatilityBreakout", name |-> "Volatility Breakout", config |-> config,
     lookback_period |-> lookback_period, volatility_factor |-> volatility_factor]

\* the offsets i of the true-range loop: range(1, min(lookback_period, len(highs)))
RangeOffsets(self, highs) == 1..(Min2(self.lookback_period, Len(highs)) - 1)

\* the guard of VolatilityBreakout.analyze that takes the insufficient-data path
VolatilityBreakout_insufficient(self, closes) == Len(closes) < self.lookback_period

\* whether every subscript of the true-range loop exists
RangeSubscriptsExist(self, highs, lows, closes) ==
    \A i \in RangeOffsets(self, highs) :
        /\ HasIndex(highs, -(i+1))
        /\ HasIndex(lows, -(i+1))
        /\ HasIndex(closes, -(i+2))

true_range(highs, lows, closes, i) ==
    Max2(At(highs, -(i+1)) - At(lows, -(i+1)),
         Max2(Abs(At(highs, -(i+1)) - At(closes, -(i+2))),
              Abs(At(lows, -(i+1)) - At(closes, -(i+2)))))

\* VolatilityBreakout.analyze
VolatilityBreakout_analyze(self, data, t) ==
    LET highs == Get(data, "highs")
        lows == Get(data, "lows")
        closes == Get(data, "prices")
        ranges == [i \in RangeOffsets(self, highs) |-> true_range(highs, lows, closes, i)]
        atr == IF Len(ranges) > 0 THEN Mean(ranges) ELSE Rat(0, 1)
        current_price == At(closes, -1)
        previous_close == At(closes, -2)
        f == self.volatility_factor
        upper_band == Rat(previous_close * atr.den * f.den + atr.num * f.num,
                          atr.den * f.den)
        lower_band == Rat(previous_close * atr.den * f.den - atr.num * f.num,
                          atr.den * f.den)
        buy == Gt(Rat(current_price, 1), upper_band)
        sell == Lt(Rat(current_price, 1), lower_band)
    IN IF VolatilityBreakout_insufficient(self, closes)
       THEN Returned(InsufficientData)
       ELSE IF ~RangeSubscriptsExist(self, highs, lows, closes)
               \/ ~HasIndex(closes, -1) \/ ~HasIndex(closes, -2)
       THEN Raised("IndexError")
       ELSE Returned(
            [signal |-> IF buy THEN "BUY" ELSE IF sell THEN "SELL" ELSE "HOLD",
             reason |-> IF buy
                        THEN "Price ({current_price:.2f}) broke above upper band ({upper_band:.2f})"
                        ELSE IF sell
                        THEN "Price ({current_price:.2f}) broke below lower band ({lower_band:.2f})"
                        ELSE "Price ({current_price:.2f}) within volatility bands",
             atr |-> atr,
             upper_band |-> upper_band,
             lower_band |-> lower_band,
             timestamp |-> Isoformat(t)])

\* strategy.analyze(market_data), dispatched on the object's class
analyze(self, data, t) ==
    CASE self.cls = "MovingAverageCrossover" -> MovingAverageCrossover_analyze(self, data, t)
      [] self.cls = "RSIStrategy" -> RSIStrategy_analyze(self, data, t)
      [] self.cls = "VolatilityBreakout" -> VolatilityBreakout_analyze(self, data, t)
      [] OTHER -> TradingStrategy_analyze(self, data, t)

(***************************************************************************)
(* The strategy objects the callers construct and the snapshots they feed. *)
(***************************************************************************)
NoConfig == << >>

\* the objects the callers construct; two of them share the name "MA Crossover"
Supplied ==
    << MovingAverageCrossover(1, 2, NoConfig),
       MovingAverageCrossover(2, 3, [name |-> "MA Crossover Medium"]),
       RSIStrategy(1, 30, 70, NoConfig),
       VolatilityBreakout(2, Rat(3, 2), NoConfig),
       TradingStrategy("Custom", NoConfig) >>

\* the objects create_default_strategies constructs, in the order it adds them;
\* RSIStrategy() and VolatilityBreakout() take the defaults of their signatures
Defaults ==
    << MovingAverageCrossover(10, 30, NoConfig),
       MovingAverageCrossover(20, 50, [name |-> "MA Crossover Medium"]),
       RSIStrategy(14, 30, 70, NoConfig),
       RSIStrategy(7, 25, 75, [name |-> "RSI Aggressive"]),
       VolatilityBreakout(20, Rat(3, 2), NoConfig) >>

\* the objects that exist
Pool == Supplied \o Defaults

Objects == 1..Len(Pool)

\* the objects the callers hand to add_strategy
SuppliedObjects == 1..Len(Supplied)

\* the objects create_default_strategies hands to add_strategy
DefaultObjects == (Len(Supplied) + 1)..Len(Pool)

\* the names the callers pass: every object's name and one that is never a key
StrategyNames == {Pool[o].name : o \in Objects} \cup {"RSI Aggressive"}

PriceLists == UNION {[1..n -> 1..MaxPrice] : n \in 0..MaxLen}

\* highs and lows aligned index-for-index with prices
Aligned(prices, s) ==
    [prices |-> prices,
     highs |-> [i \in 1..Len(prices) |-> prices[i] + s],
     lows |-> [i \in 1..Len(prices) |-> prices[i] - s]]

\* the spread between a bar's close and its high and low
Spreads == {0}

AlignedSnapshots == {Aligned(p, s) : p \in PriceLists, s \in Spreads}

\* the dict with no keys
EmptySnapshot == << >>

\* what update_market_data is called with
Snapshots == AlignedSnapshots \cup {EmptySnapshot}

(***************************************************************************)
(* strategy_manager.py: StrategyManager.  Every method is an operator from *)
(* the state before the call to the state after it and the value returned. *)
(***************************************************************************)
Manager ==
    [strategies |-> strategies, active_strategies |-> active_strategies,
     market_data |-> market_data, last_update |-> last_update,
     active |-> active, last_signal |-> last_signal]

Result(state, ret) == [state |-> state, ret |-> ret]

\* add_strategy that keeps the object already registered under the name
add_strategy_KeepFirst(m, strategy) ==
    IF Pool[strategy].name \in DOMAIN m.strategies
    THEN Result(m, None)
    ELSE Result([m EXCEPT !.strategies = DictSet(@, Pool[strategy].name, strategy)], None)

\* StrategyManager.add_strategy
add_strategy(m, strategy) ==
    Result([m EXCEPT !.strategies = DictSet(@, Pool[strategy].name, strategy)], None)

\* remove_strategy that forgets the active list
remove_strategy_KeepActive(m, strategy_name) ==
    IF strategy_name \in DOMAIN m.strategies
    THEN Result([m EXCEPT !.strategies = DictDel(@, strategy_name)], TRUE)
    ELSE Result(m, FALSE)

\* StrategyManager.remove_strategy
remove_strategy(m, strategy_name) ==
    IF strategy_name \in DOMAIN m.strategies
    THEN Result([m EXCEPT
                   !.active_strategies =
                       IF InList(@, strategy_name) THEN ListRemove(@, strategy_name) ELSE @,
                   !.strategies = DictDel(@, strategy_name)],
                TRUE)
    ELSE Result(m, FALSE)

\* activate_strategy that appends the name before it looks it up
activate_strategy_AppendFirst(m, strategy_name) ==
    IF InList(m.active_strategies, strategy_name)
    THEN Result(m, strategy_name \in DOMAIN m.strategies)
    ELSE IF strategy_name \notin DOMAIN m.strategies
    THEN Result([m EXCEPT !.active_strategies = Append(@, strategy_name)], FALSE)
    ELSE Result([m EXCEPT
                   !.active_strategies = Append(@, strategy_name),
                   !.active[m.strategies[strategy_name]] = TRUE],
                TRUE)

\* activate_strategy that puts the name at the front of the active list
activate_strategy_Prepend(m, strategy_name) ==
    IF strategy_name \notin DOMAIN m.strategies
    THEN Result(m, FALSE)
    ELSE IF ~InList(m.active_strategies, strategy_name)
    THEN Result([m EXCEPT
                   !.active_strategies = <<strategy_name>> \o @,
                   !.active[m.strategies[strategy_name]] = TRUE],
                TRUE)
    ELSE Result(m, TRUE)

\* activate_strategy without the test for a name that is already active
activate_strategy_AlwaysAppend(m, strategy_name) ==
    IF strategy_name \notin DOMAIN m.strategies
    THEN Result(m, FALSE)
    ELSE Result([m EXCEPT
                   !.active_strategies = Append(@, strategy_name),
                   !.active[m.strategies[strategy_name]] = TRUE],
                TRUE)

\* StrategyManager.activate_strategy
activate_strategy(m, strategy_name) ==
    IF strategy_name \notin DOMAIN m.strategies
    THEN Result(m, FALSE)
    ELSE IF ~InList(m.active_strategies, strategy_name)
    THEN Result([m EXCEPT
                   !.active_strategies = Append(@, strategy_name),
                   !.active[m.strategies[strategy_name]] = TRUE],
                TRUE)
    ELSE Result(m, TRUE)

\* StrategyManager.deactivate_strategy
deactivate_strategy(m, strategy_name) ==
    IF strategy_name \notin DOMAIN m.strategies
    THEN Result(m, FALSE)
    ELSE IF InList(m.active_strategies, strategy_name)
    THEN Result([m EXCEPT
                   !.active_strategies = ListRemove(@, strategy_name),
                   !.active[m.strategies[strategy_name]] = FALSE],
                TRUE)
    ELSE Result(m, TRUE)

\* StrategyManager.update_market_data
update_market_data(m, data, t) ==
    Result([m EXCEPT !.market_data = data, !.last_update = Some(t)], None)

\* the value a call returns, or the exception it lets escape
Return(value) == [raised |-> FALSE, value |-> value]

Raise(exception) == [raised |-> TRUE, exception |-> exception]

\* an insertion-ordered dict is the list of its (key, value) pairs
Keys(d) == {d[i][1] : i \in 1..Len(d)}

KeyList(d) == [i \in 1..Len(d) |-> d[i][1]]

Values(d) == [i \in 1..Len(d) |-> d[i][2]]

Lookup(d, k) == d[CHOOSE i \in 1..Len(d) : d[i][1] = k][2]

\* results[k] = v: a key already present keeps its place
ODictSet(d, k, v) ==
    IF k \in Keys(d)
    THEN [i \in 1..Len(d) |-> IF d[i][1] = k THEN <<k, v>> ELSE d[i]]
    ELSE Append(d, <<k, v>>)

\* the loop with the try around all of it: the first failure ends the round
RECURSIVE RunLoop_AbortOnRaise(_, _, _, _)
RunLoop_AbortOnRaise(m, t, i, results) ==
    IF i > Len(m.active_strategies)
    THEN Result(m, Return(results))
    ELSE LET strategy_name == m.active_strategies[i]
             strategy == m.strategies[strategy_name]
             outcome == analyze(Pool[strategy], m.market_data, t)
         IN IF outcome.raised
            THEN Result(m, Return(results))
            ELSE RunLoop_AbortOnRaise(
                    [m EXCEPT !.last_signal[strategy] = Some(outcome.signal)],
                    t, i + 1, ODictSet(results, strategy_name, outcome.signal))

\* the loop without its try: the exception of a strategy leaves run_strategies
RECURSIVE RunLoop_NoTry(_, _, _, _)
RunLoop_NoTry(m, t, i, results) ==
    IF i > Len(m.active_strategies)
    THEN Result(m, Return(results))
    ELSE LET strategy_name == m.active_strategies[i]
             strategy == m.strategies[strategy_name]
             outcome == analyze(Pool[strategy], m.market_data, t)
         IN IF outcome.raised
            THEN Result(m, Raise(outcome.exception))
            ELSE RunLoop_NoTry(
                    [m EXCEPT !.last_signal[strategy] = Some(outcome.signal)],
                    t, i + 1, ODictSet(results, strategy_name, outcome.signal))

\* the loop that clears the last signal of a strategy whose evaluation raised
RECURSIVE RunLoop_ForgetOnRaise(_, _, _, _)
RunLoop_ForgetOnRaise(m, t, i, results) ==
    IF i > Len(m.active_strategies)
    THEN Result(m, Return(results))
    ELSE LET strategy_name == m.active_strategies[i]
             strategy == m.strategies[strategy_name]
             outcome == analyze(Pool[strategy], m.market_data, t)
         IN IF outcome.raised
            THEN RunLoop_ForgetOnRaise([m EXCEPT !.last_signal[strategy] = None],
                                       t, i + 1, results)
            ELSE RunLoop_ForgetOnRaise(
                    [m EXCEPT !.last_signal[strategy] = Some(outcome.signal)],
                    t, i + 1, ODictSet(results, strategy_name, outcome.signal))

\* the loop of run_strategies from the i-th active name on
RECURSIVE RunLoop(_, _, _, _)
RunLoop(m, t, i, results) ==
    IF i > Len(m.active_strategies)
    THEN Result(m, Return(results))
    ELSE LET strategy_name == m.active_strategies[i]
         IN IF strategy_name \notin DOMAIN m.strategies
            THEN Result(m, Raise("KeyError"))
            ELSE LET strategy == m.strategies[strategy_name]
                     outcome == analyze(Pool[strategy], m.market_data, t)
                 IN IF outcome.raised
                    THEN RunLoop(m, t, i + 1, results)
                    ELSE RunLoop([m EXCEPT !.last_signal[strategy] = Some(outcome.signal)],
                                 t, i + 1,
                                 ODictSet(results, strategy_name, outcome.signal))

\* the guard of run_strategies: `not self.market_data` is true of the empty dict
NoMarketData(m) == DOMAIN m.market_data = {}

\* StrategyManager.run_strategies
run_strategies(m, t) ==
    IF NoMarketData(m) THEN Result(m, Return(<< >>)) ELSE RunLoop(m, t, 1, << >>)

\* the count without its filter on the kind
CountSignals_Unfiltered(signals, kind) == Len(signals)

\* sum(1 for s in signals.values() if s.get('signal') == kind)
CountSignals(signals, kind) ==
    Cardinality({i \in 1..Len(signals) :
                    "signal" \in DOMAIN signals[i][2] /\ signals[i][2].signal = kind})

\* the majority rule with >= where the source has >
MajoritySignal_NonStrict(buy_count, sell_count, hold_count) ==
    IF buy_count >= sell_count /\ buy_count >= hold_count THEN "BUY"
    ELSE IF sell_count >= buy_count /\ sell_count >= hold_count THEN "SELL"
    ELSE "HOLD"

\* the majority rule of get_consensus_signal
MajoritySignal(buy_count, sell_count, hold_count) ==
    IF buy_count > sell_count /\ buy_count > hold_count THEN "BUY"
    ELSE IF sell_count > buy_count /\ sell_count > hold_count THEN "SELL"
    ELSE "HOLD"

MajorityReason(signal) ==
    CASE signal = "BUY" ->
            "Majority consensus: {buy_count}/{len(signals)} strategies recommend BUY"
      [] signal = "SELL" ->
            "Majority consensus: {sell_count}/{len(signals)} strategies recommend SELL"
      [] OTHER ->
            "No clear consensus or majority HOLD: {hold_count}/{len(signals)} strategies"

\* what get_consensus_signal returns when run_strategies returned nothing
NoSignalsResult == [signal |-> "HOLD", reason |-> "No active strategies"]

\* what get_consensus_signal builds from a non-empty mapping of signals
ConsensusResult(signals, t) ==
    LET buy_count == CountSignals(signals, "BUY")
        sell_count == CountSignals(signals, "SELL")
        hold_count == CountSignals(signals, "HOLD")
        signal == MajoritySignal(buy_count, sell_count, hold_count)
    IN [signal |-> signal,
        reason |-> MajorityReason(signal),
        buy_count |-> buy_count,
        sell_count |-> sell_count,
        hold_count |-> hold_count,
        timestamp |-> Isoformat(t),
        details |-> signals]

\* StrategyManager.get_consensus_signal
get_consensus_signal(m, t) ==
    LET run == run_strategies(m, t)
        signals == run.ret.value
    IN IF run.ret.raised THEN run
       ELSE IF Len(signals) = 0 THEN Result(run.state, Return(NoSignalsResult))
       ELSE Result(run.state, Return(ConsensusResult(signals, t)))

\* the objects of Defaults have not been handed out: none is registered,
\* active or has a signal, as is true of objects about to be constructed
DefaultsUnused(m) ==
    \A o \in DefaultObjects :
        /\ \A n \in DOMAIN m.strategies : m.strategies[n] # o
        /\ ~m.active[o]
        /\ m.last_signal[o] = None

\* the five add_strategy calls of create_default_strategies from the i-th on
RECURSIVE AddDefaults(_, _)
AddDefaults(m, i) ==
    IF i > Len(Defaults) THEN m
    ELSE AddDefaults(add_strategy(m, Len(Supplied) + i).state, i + 1)

\* StrategyManager.create_default_strategies
create_default_strategies(m) == Result(AddDefaults(m, 1), None)

(***************************************************************************)
(* The state machine: a fresh manager, then any sequence of calls.         *)
(***************************************************************************)
\* StrategyManager.__init__, and the attributes of objects just constructed
Fresh ==
    [strategies |-> << >>, active_strategies |-> << >>,
     market_data |-> << >>, last_update |-> None,
     active |-> [o \in Objects |-> FALSE],
     last_signal |-> [o \in Objects |-> None]]

\* a run starts with the manager m and n calls to come
StartsAs(m, n) ==
    /\ strategies = m.strategies
    /\ active_strategies = m.active_strategies
    /\ market_data = m.market_data
    /\ last_update = m.last_update
    /\ active = m.active
    /\ last_signal = m.last_signal
    /\ call = <<"__init__", [ret |-> None]>>
    /\ calls_left = n
    /\ instance = None

Init == StartsAs(Fresh, MaxCalls)

Install(state) ==
    /\ strategies' = state.strategies
    /\ active_strategies' = state.active_strategies
    /\ market_data' = state.market_data
    /\ last_update' = state.last_update
    /\ active' = state.active
    /\ last_signal' = state.last_signal
    /\ calls_left > 0
    /\ calls_left' = calls_left - 1
    /\ UNCHANGED instance

AddStrategy ==
    \E o \in SuppliedObjects :
        LET r == add_strategy(Manager, o)
        IN /\ Install(r.state)
           /\ call' = <<"add_strategy", [strategy |-> o, ret |-> r.ret]>>

RemoveStrategy ==
    \E n \in StrategyNames :
        LET r == remove_strategy(Manager, n)
        IN /\ Install(r.state)
           /\ call' = <<"remove_strategy", [strategy_name |-> n, ret |-> r.ret]>>

ActivateStrategy ==
    \E n \in StrategyNames :
        LET r == activate_strategy(Manager, n)
        IN /\ Install(r.state)
           /\ call' = <<"activate_strategy", [strategy_name |-> n, ret |-> r.ret]>>

DeactivateStrategy ==
    \E n \in StrategyNames :
        LET r == deactivate_strategy(Manager, n)
        IN /\ Install(r.state)
           /\ call' = <<"deactivate_strategy", [strategy_name |-> n, ret |-> r.ret]>>

UpdateMarketData ==
    \E data \in Snapshots :
        LET r == update_market_data(Manager, data, Now)
        IN /\ Install(r.state)
           /\ call' = <<"update_market_data", [ret |-> r.ret]>>

RunStrategies ==
    LET r == run_strategies(Manager, Now)
    IN /\ Install(r.state)
       /\ call' = <<"run_strategies", [ret |-> r.ret]>>

GetConsensusSignal ==
    LET r == get_consensus_signal(Manager, Now)
    IN /\ Install(r.state)
       /\ call' = <<"get_consensus_signal", [ret |-> r.ret]>>

\* create_default_strategies constructs its objects anew on every call; the
\* model has one set of them, so the call is taken while they are unused
CreateDefaultStrategies ==
    LET r == create_default_strategies(Manager)
    IN /\ DefaultsUnused(Manager)
       /\ Install(r.state)
       /\ call' = <<"create_default_strategies", [ret |-> r.ret]>>

Next ==
    \/ AddStrategy
    \/ RemoveStrategy
    \/ ActivateStrategy
    \/ DeactivateStrategy
    \/ UpdateMarketData
    \/ RunStrategies
    \/ GetConsensusSignal

Spec == Init /\ [][Next]_vars

(***************************************************************************)
(* The same machine for a caller that also lets the manager construct its  *)
(* default strategies.                                                     *)
(***************************************************************************)
InitDefaults == StartsAs(Fresh, MaxCallsWithDefaults)

NextDefaults ==
    \/ CreateDefaultStrategies
    \/ Next

SpecDefaults == InitDefaults /\ [][NextDefaults]_vars

(***************************************************************************)
(* The same machine started from a manager that has been set up: some      *)
(* strategies were added, then some of them were activated in some order.  *)
(* Every such state is the result of that sequence of calls on a fresh     *)
(* manager, computed by the operators above.                               *)
(***************************************************************************)
\* add_strategy for every object of the set objs
RECURSIVE AddAll(_, _)
AddAll(m, objs) ==
    IF objs = {} THEN m
    ELSE LET o == CHOOSE x \in objs : \A y \in objs : x <= y
         IN AddAll(add_strategy(m, o).state, objs \ {o})

\* activate_strategy for every name of the list names, in order
RECURSIVE ActivateAll(_, _)
ActivateAll(m, names) ==
    IF Len(names) = 0 THEN m
    ELSE ActivateAll(activate_strategy(m, Head(names)).state, Tail(names))

\* the lists of distinct names drawn from the set S
Orderings(S) ==
    {q \in UNION {[1..k -> S] : k \in 0..Cardinality(S)} :
        \A i, j \in 1..Len(q) : i # j => q[i] # q[j]}

Setups ==
    UNION {{ActivateAll(AddAll(Fresh, objs), names) :
                names \in Orderings({Pool[o].name : o \in objs})} :
           objs \in SUBSET SuppliedObjects}

InitSetup == \E m \in Setups : StartsAs(m, MaxCallsAfterSetup)

SpecSetup == InitSetup /\ [][Next]_vars

(***************************************************************************)
(* A strategy object used on its own: a caller constructs it with the      *)
(* parameters of its choice (the constructors accept every value) and      *)
(* evaluates it round after round on a price history that grows by one     *)
(* sample per round, or asks an RSIStrategy for the RSI of a series.       *)
(***************************************************************************)
\* the integers the callers pass as windows, periods and lookbacks
Windows == -1..MaxWindow

\* the (oversold, overbought) pairs the callers pass
Thresholds == {<<30, 70>>, <<25, 75>>, <<70, 30>>}

\* the objects the constructors of trading_strategies.py return
Constructed ==
    {MovingAverageCrossover(sw, lw, NoConfig) : sw \in Windows, lw \in Windows}
    \cup {RSIStrategy(p, th[1], th[2], NoConfig) : p \in Windows, th \in Thresholds}
    \cup {VolatilityBreakout(lb, Rat(3, 2), NoConfig) : lb \in Windows}

\* the attributes TradingStrategy.__init__ sets besides those of the subclass
NewInstance(obj) == [obj |-> obj, active |-> FALSE, last_signal |-> None]

Series == UNION {[1..n -> 1..MaxSample] : n \in 0..MaxBars}

\* what analyze is called with
InstanceSnapshots == {Aligned(p, s) : p \in Series, s \in Spreads} \cup {EmptySnapshot}

\* the snapshots of the round after data: one more bar at the end
OneMoreBar(data) ==
    IF Len(Get(data, "prices")) < MaxBars
    THEN {Aligned(Append(Get(data, "prices"), p), s) : p \in 1..MaxSample, s \in Spreads}
    ELSE {}

InitInstance ==
    /\ strategies = Fresh.strategies
    /\ active_strategies = Fresh.active_strategies
    /\ market_data = Fresh.market_data
    /\ last_update = Fresh.last_update
    /\ active = Fresh.active
    /\ last_signal = Fresh.last_signal
    /\ call = <<"__init__", [ret |-> None]>>
    /\ calls_left = MaxRounds
    /\ \E obj \in Constructed : instance = Some(NewInstance(obj))

\* strategy.analyze(data): the first round on any snapshot, every later round
\* on the snapshot of the round before with one more bar
Analyze ==
    /\ Len(instance) = 1
    /\ calls_left > 0
    /\ call[1] \in {"__init__", "analyze"}
    /\ \E data \in IF call[1] = "analyze" THEN OneMoreBar(call[2].market_data)
                    ELSE InstanceSnapshots :
        LET outcome == analyze(instance[1].obj, data, Now)
        IN /\ instance' = IF outcome.raised THEN instance
                          ELSE Some([instance[1] EXCEPT !.last_signal = Some(outcome.signal)])
           /\ call' = <<"analyze", [market_data |-> data, ret |-> outcome]>>
           /\ calls_left' = calls_left - 1
           /\ UNCHANGED <<strategies, active_strategies, market_data, last_update,
                          active, last_signal>>

\* strategy.calculate_rsi(prices) on a new RSIStrategy
CalculateRsi ==
    \E prices \in Series :
        /\ Len(instance) = 1
        /\ instance[1].obj.cls = "RSIStrategy"
        /\ calls_left > 0
        /\ call[1] = "__init__"
        /\ call' = <<"calculate_rsi",
                     [prices |-> prices, ret |-> calculate_rsi(instance[1].obj, prices)]>>
        /\ calls_left' = calls_left - 1
        /\ UNCHANGED <<strategies, active_strategies, market_data, last_update,
                       active, last_signal, instance>>

NextInstance ==
    \/ Analyze
    \/ CalculateRsi

SpecInstance == InitInstance /\ [][NextInstance]_vars

(***************************************************************************)
(* Vocabulary of the properties.                                           *)
(***************************************************************************)
SignalKinds == {"BUY", "SELL", "HOLD"}

\* the operation called last, and its arguments and result
LastOp == call[1]

LastCall == call[2]

\* a step that serves a call of the operation op
Served(op) == calls_left' # calls_left /\ LastOp' = op

\* the latest call was op and returned normally
Returns(op) ==
    LastOp = op /\ (op \in {"run_strategies", "get_consensus_signal"} => ~LastCall.ret.raised)

ActiveNames == {active_strategies[i] : i \in 1..Len(active_strategies)}

\* the outcome of evaluating the strategy registered as n on the stored snapshot
Evaluation(n) == analyze(Pool[strategies[n]], market_data, Now)

\* the active strategies whose evaluation does not raise
Succeeding == {n \in ActiveNames : n \in DOMAIN strategies /\ ~Evaluation(n).raised}

\* how many entries of a mapping of signals are of the given kind
Votes(details, kind) == Cardinality({i \in 1..Len(details) : details[i][2].signal = kind})

\* the list s without the name n, in the same order
RECURSIVE Without(_, _)
Without(s, n) ==
    IF Len(s) = 0 THEN << >>
    ELSE IF Head(s) = n THEN Without(Tail(s), n)
    ELSE <<Head(s)>> \o Without(Tail(s), n)

(***************************************************************************)
(* C1: whenever get_consensus_signal aggregates a non-empty mapping of     *)
(* signals, it returns BUY exactly when the BUY votes strictly outnumber   *)
(* both the SELL and the HOLD votes, SELL exactly when the SELL votes      *)
(* strictly outnumber both others, and HOLD in every other case.           *)
(***************************************************************************)
C1_MajorityRule ==
    (Returns("get_consensus_signal") /\ "details" \in DOMAIN LastCall.ret.value) =>
        LET r == LastCall.ret.value
            b == Votes(r.details, "BUY")
            s == Votes(r.details, "SELL")
            h == Votes(r.details, "HOLD")
        IN /\ Len(r.details) > 0
           /\ r.signal \in SignalKinds
           /\ (r.signal = "BUY") <=> (b > s /\ b > h)
           /\ (r.signal = "SELL") <=> (s > b /\ s > h)
           /\ (r.signal = "HOLD") <=> (~(b > s /\ b > h) /\ ~(s > b /\ s > h))

\* three strategies voted BUY, BUY, HOLD and the consensus is BUY
C1_Witness ==
    /\ Returns("get_consensus_signal")
    /\ "details" \in DOMAIN LastCall.ret.value
    /\ Votes(LastCall.ret.value.details, "BUY") = 2
    /\ Votes(LastCall.ret.value.details, "HOLD") = 1
    /\ Votes(LastCall.ret.value.details, "SELL") = 0
    /\ LastCall.ret.value.signal = "BUY"

(***************************************************************************)
(* C2: when run_strategies runs on stored market data, the names in the    *)
(* mapping it returns are exactly the active strategies whose evaluation   *)
(* does not raise, each with the signal its evaluation returns: a failing  *)
(* strategy is left out and the others are still evaluated, wherever the   *)
(* failing one sits in the active order.                                   *)
(***************************************************************************)
C2_FailureIsolation ==
    (Returns("run_strategies") /\ ~NoMarketData(Manager)) =>
        /\ Keys(LastCall.ret.value) = Succeeding
        /\ \A n \in Succeeding : Lookup(LastCall.ret.value, n) = Evaluation(n).signal

\* three active strategies, the first of them raised, the two after it were evaluated
C2_Witness ==
    /\ Returns("run_strategies")
    /\ ~NoMarketData(Manager)
    /\ Len(active_strategies) = 3
    /\ Evaluation(active_strategies[1]).raised
    /\ KeyList(LastCall.ret.value) = <<active_strategies[2], active_strategies[3]>>

(***************************************************************************)
(* C3: on a snapshot whose highs and lows are aligned with prices,         *)
(* VolatilityBreakout.analyze does not raise: with fewer prices than       *)
(* lookback_period it returns HOLD / 'Insufficient data', and with         *)
(* lookback_period prices or more it returns a BUY, SELL or HOLD signal    *)
(* that carries atr, upper_band and lower_band.                            *)
(***************************************************************************)
C3_VolatilityBreakoutNeverRaises ==
    (/\ Returns("run_strategies")
     /\ market_data \in AlignedSnapshots
     /\ "Volatility Breakout" \in ActiveNames) =>
        LET self == Pool[strategies["Volatility Breakout"]]
            outcome == Evaluation("Volatility Breakout")
        IN /\ ~outcome.raised
           /\ "Volatility Breakout" \in Keys(LastCall.ret.value)
           /\ IF Len(market_data.prices) < self.lookback_period
              THEN outcome.signal = InsufficientData
              ELSE /\ outcome.signal.signal \in SignalKinds
                   /\ {"atr", "upper_band", "lower_band"} \subseteq DOMAIN outcome.signal

(***************************************************************************)
(* C4: when run_strategies yields no signals, get_consensus_signal returns *)
(* HOLD with reason 'No active strategies' and with buy_count, sell_count  *)
(* and hold_count present and equal to zero.                               *)
(***************************************************************************)
C4_EmptyConsensusHasZeroCounts ==
    (/\ Returns("get_consensus_signal")
     /\ ~run_strategies(Manager, Now).ret.raised
     /\ run_strategies(Manager, Now).ret.value = << >>) =>
        LET r == LastCall.ret.value
        IN /\ r.signal = "HOLD"
           /\ r.reason = "No active strategies"
           /\ {"buy_count", "sell_count", "hold_count"} \subseteq DOMAIN r
           /\ r.buy_count = 0
           /\ r.sell_count = 0
           /\ r.hold_count = 0

(***************************************************************************)
(* C5: in a consensus built from a non-empty mapping of signals the three  *)
(* counts are non-negative and sum to the number of entries of details,    *)
(* and details holds exactly the active strategies evaluated successfully: *)
(* an inactive strategy or one that raised is counted nowhere.             *)
(***************************************************************************)
C5_CountsSumToDetails ==
    (Returns("get_consensus_signal") /\ "details" \in DOMAIN LastCall.ret.value) =>
        LET r == LastCall.ret.value
        IN /\ r.buy_count >= 0
           /\ r.sell_count >= 0
           /\ r.hold_count >= 0
           /\ r.buy_count + r.sell_count + r.hold_count = Len(r.details)
           /\ Keys(r.details) = Succeeding
           /\ Len(r.details) = Cardinality(Succeeding)

\* a consensus was built while one active strategy raised and one registered
\* strategy was inactive
C5_Witness ==
    /\ Returns("get_consensus_signal")
    /\ "details" \in DOMAIN LastCall.ret.value
    /\ Len(LastCall.ret.value.details) >= 1
    /\ ActiveNames \ Succeeding # {}
    /\ DOMAIN strategies \ ActiveNames # {}

(***************************************************************************)
(* C6: run_strategies returns an empty mapping and evaluates nothing when  *)
(* update_market_data has never been called; once it has been called, with *)
(* any snapshot, run_strategies evaluates every active strategy against    *)
(* the stored snapshot.                                                    *)
(***************************************************************************)
C6_RunUsesAnySnapshot ==
    [][Served("run_strategies") =>
          IF last_update = None
          THEN LastCall'.ret = Return(<< >>) /\ UNCHANGED last_signal
          ELSE /\ ~LastCall'.ret.raised
               /\ \A n \in ActiveNames :
                     \/ Evaluation(n).raised
                     \/ /\ n \in Keys(LastCall'.ret.value)
                        /\ Lookup(LastCall'.ret.value, n) = Evaluation(n).signal
                        /\ last_signal'[strategies[n]] = Some(Evaluation(n).signal)]_vars

(***************************************************************************)
(* C7: activate_strategy, deactivate_strategy and remove_strategy called   *)
(* with a name that is not registered return False and change nothing:     *)
(* not the registry, not the active list or its order, not a flag.         *)
(***************************************************************************)
C7_UnknownNameIsRefused ==
    [][(/\ calls_left' # calls_left
        /\ LastOp' \in {"activate_strategy", "deactivate_strategy", "remove_strategy"}
        /\ LastCall'.strategy_name \notin DOMAIN strategies) =>
          /\ LastCall'.ret = FALSE
          /\ UNCHANGED <<strategies, active_strategies, active,
                         market_data, last_update, last_signal>>]_vars

\* activate_strategy was refused for an unknown name while strategies were active
C7_Witness ==
    /\ LastOp = "activate_strategy"
    /\ LastCall.strategy_name \notin DOMAIN strategies
    /\ LastCall.ret = FALSE
    /\ Len(active_strategies) > 0

(***************************************************************************)
(* C8: activating a registered strategy that is already active returns     *)
(* True and changes nothing (its place in the order included), and so does *)
(* deactivating a registered strategy that is not active; either operation *)
(* applied twice in a row leaves the state the first application left.     *)
(***************************************************************************)
C8_Idempotent ==
    \A n \in DOMAIN strategies :
        LET a1 == activate_strategy(Manager, n)
            a2 == activate_strategy(a1.state, n)
            d1 == deactivate_strategy(Manager, n)
            d2 == deactivate_strategy(d1.state, n)
        IN /\ InList(active_strategies, n) => a1 = Result(Manager, TRUE)
           /\ ~InList(active_strategies, n) => d1 = Result(Manager, TRUE)
           /\ a1.ret = TRUE /\ a2 = Result(a1.state, TRUE)
           /\ d1.ret = TRUE /\ d2 = Result(d1.state, TRUE)

\* activate_strategy returned True for a name that is active and not the last
\* of the active list: the call re-activated it and did not move it
C8_Witness ==
    /\ LastOp = "activate_strategy"
    /\ LastCall.ret = TRUE
    /\ Len(active_strategies) >= 2
    /\ \E i \in 1..(Len(active_strategies) - 1) : active_strategies[i] = LastCall.strategy_name

\* the state st holds no trace of the name n and every other entry of the
\* current registry and active list
Removed(st, n) ==
    /\ n \notin DOMAIN st.strategies
    /\ ~InList(st.active_strategies, n)
    /\ DOMAIN st.strategies = DOMAIN strategies \ {n}
    /\ \A k \in DOMAIN st.strategies : st.strategies[k] = strategies[k]
    /\ st.active_strategies = Without(active_strategies, n)

(***************************************************************************)
(* C9: remove_strategy(name) returns True exactly when name is registered, *)
(* and afterwards name is in neither the registry nor the active list;     *)
(* deactivate-then-remove and remove-then-deactivate both end without the  *)
(* name in either, every other entry unchanged.                            *)
(***************************************************************************)
C9_RemoveRoundTrip ==
    \A n \in StrategyNames :
        LET r == remove_strategy(Manager, n)
            dr == remove_strategy(deactivate_strategy(Manager, n).state, n)
            rd == deactivate_strategy(remove_strategy(Manager, n).state, n)
        IN /\ r.ret = (n \in DOMAIN strategies)
           /\ Removed(r.state, n)
           /\ Removed(dr.state, n)
           /\ Removed(rd.state, n)

\* remove_strategy returned True for a strategy that was active, and other
\* strategies stay active
C9_Witness ==
    /\ LastOp = "remove_strategy"
    /\ LastCall.ret = TRUE
    /\ LastCall.strategy_name \notin DOMAIN strategies
    /\ \E o \in Objects : Pool[o].name = LastCall.strategy_name /\ active[o]
    /\ Len(active_strategies) > 0

(***************************************************************************)
(* C10: add_strategy with a name that is already registered returns        *)
(* normally, registers the new object under the name and leaves the active *)
(* list as it is; if the name is active, the next run_strategies evaluates *)
(* the new object under that name.                                         *)
(***************************************************************************)
C10_AddOverwrites ==
    [][Served("add_strategy") =>
          LET o == LastCall'.strategy
              n == Pool[o].name
              run == run_strategies(Manager', Now)
              outcome == analyze(Pool[o], market_data, Now)
          IN /\ LastCall'.ret = None
             /\ strategies' = DictSet(strategies, n, o)
             /\ UNCHANGED active_strategies
             /\ (InList(active_strategies, n) /\ ~NoMarketData(Manager)) =>
                   /\ ~run.ret.raised
                   /\ IF outcome.raised
                      THEN /\ n \notin Keys(run.ret.value)
                           /\ run.state.last_signal[o] = last_signal[o]
                      ELSE /\ n \in Keys(run.ret.value)
                           /\ Lookup(run.ret.value, n) = outcome.signal
                           /\ run.state.last_signal[o] = Some(outcome.signal)]_vars

\* the second MA Crossover object was added over the first one, which had
\* been activated, while market data is stored
C10_Witness ==
    /\ LastOp = "add_strategy"
    /\ LastCall.strategy = 2
    /\ active[1]
    /\ ~active[2]
    /\ InList(active_strategies, "MA Crossover")
    /\ ~NoMarketData(Manager)

(***************************************************************************)
(* C11: get_consensus_signal never raises, whatever calls came before it   *)
(* and whichever active strategies fail: it returns a result whose signal  *)
(* is BUY, SELL or HOLD, and HOLD when no active strategy was evaluated    *)
(* successfully.                                                           *)
(***************************************************************************)
C11_ConsensusNeverRaises ==
    LastOp = "get_consensus_signal" =>
        /\ ~LastCall.ret.raised
        /\ "signal" \in DOMAIN LastCall.ret.value
        /\ LastCall.ret.value.signal \in SignalKinds
        /\ Succeeding = {} => LastCall.ret.value.signal = "HOLD"

\* a consensus was asked for on stored market data while both active
\* strategies raise, and it is HOLD
C11_Witness ==
    /\ LastOp = "get_consensus_signal"
    /\ ~NoMarketData(Manager)
    /\ Len(active_strategies) = 2
    /\ \A n \in ActiveNames : Evaluation(n).raised
    /\ ~LastCall.ret.raised
    /\ LastCall.ret.value.signal = "HOLD"

\* the elements of the list s that are in the set S, in the order of s
RECURSIVE Only(_, _)
Only(s, S) ==
    IF Len(s) = 0 THEN << >>
    ELSE IF Head(s) \in S THEN <<Head(s)>> \o Only(Tail(s), S)
    ELSE Only(Tail(s), S)

\* a signal without the reading of the clock it carries
WithoutTimestamp(signal) == [k \in DOMAIN signal \ {"timestamp"} |-> signal[k]]

\* a mapping of signals without their timestamps, in the same order
Untimed(results) ==
    [i \in 1..Len(results) |-> <<results[i][1], WithoutTimestamp(results[i][2])>>]

\* the signal and the counts of a consensus result
Tally(consensus) ==
    [k \in DOMAIN consensus \cap {"signal", "buy_count", "sell_count", "hold_count"} |->
        consensus[k]]

\* run_strategies lists the names evaluated successfully in the order of the
\* active list, and a name deactivated and activated again is the last of it
EvaluatedInActivationOrder ==
    /\ (Returns("run_strategies") /\ ~NoMarketData(Manager)) =>
           KeyList(LastCall.ret.value) = Only(active_strategies, Succeeding)
    /\ \A n \in ActiveNames :
           activate_strategy(deactivate_strategy(Manager, n).state, n).state.active_strategies
               = Append(Without(active_strategies, n), n)

(***************************************************************************)
(* C12 as stated: run_strategies evaluates the active strategies in the    *)
(* order their names entered the active list (a name deactivated and       *)
(* activated again moves to the end) and lists the successful ones in that *)
(* order; two managers in the same state, each reading its own clock,      *)
(* return the same result mapping and the same consensus signal and counts.*)
(***************************************************************************)
C12_SameOrderSameResults ==
    /\ EvaluatedInActivationOrder
    /\ \A t1, t2 \in ClockReadings :
          /\ run_strategies(Manager, t1).ret = run_strategies(Manager, t2).ret
          /\ Tally(get_consensus_signal(Manager, t1).ret.value)
                = Tally(get_consensus_signal(Manager, t2).ret.value)

(***************************************************************************)
(* C12 as amended: the same, where the two result mappings agree on the    *)
(* names, their order and every key of every signal except the timestamp,  *)
(* which is each manager's own reading of the clock.                       *)
(***************************************************************************)
C12_SameOrderSameResultsButTimestamps ==
    /\ EvaluatedInActivationOrder
    /\ \A t1, t2 \in ClockReadings :
          LET r1 == run_strategies(Manager, t1).ret
              r2 == run_strategies(Manager, t2).ret
          IN /\ ~r1.raised /\ ~r2.raised
             /\ Untimed(r1.value) = Untimed(r2.value)
             /\ Tally(get_consensus_signal(Manager, t1).ret.value)
                   = Tally(get_consensus_signal(Manager, t2).ret.value)

\* three active strategies, the second of them raised, the first and the
\* third are listed in that order and their signals carry a timestamp
C12_Witness ==
    /\ Returns("run_strategies")
    /\ ~NoMarketData(Manager)
    /\ Len(active_strategies) = 3
    /\ Evaluation(active_strategies[2]).raised
    /\ KeyList(LastCall.ret.value) = <<active_strategies[1], active_strategies[3]>>
    /\ \A i \in 1..2 : "timestamp" \in DOMAIN LastCall.ret.value[i][2]

\* the strategy object used on its own, and the snapshot of its latest round
Self == instance[1].obj

RoundPrices == Get(LastCall.market_data, "prices")

\* the parameter ranges the constructors are said to enforce
ValidParameters(obj) ==
    CASE obj.cls = "MovingAverageCrossover" ->
            0 < obj.short_window /\ 0 < obj.long_window /\ obj.short_window < obj.long_window
      [] obj.cls = "RSIStrategy" ->
            0 <= obj.oversold /\ obj.oversold < obj.overbought /\ obj.overbought <= 100
      [] obj.cls = "VolatilityBreakout" -> 0 < obj.lookback_period
      [] OTHER -> TRUE

(***************************************************************************)
(* C13: the constructors validate their parameters, so no strategy object  *)
(* exists, and none is ever evaluated, whose windows are non-positive or   *)
(* not short < long, whose thresholds are not 0 <= oversold < overbought   *)
(* <= 100, or whose lookback period is non-positive.                       *)
(***************************************************************************)
C13_ConstructionValidates ==
    (Len(instance) = 1 /\ LastOp = "analyze") => ValidParameters(Self)

\* the short moving average of the series is above its long one
ShortAboveLong(self, prices) ==
    Gt(Mean(SliceFrom(prices, -self.short_window)),
       Mean(SliceFrom(prices, -self.long_window)))

(***************************************************************************)
(* C14: a MovingAverageCrossover evaluated round after round on a series   *)
(* that grows by one sample per round (every series at least long_window   *)
(* long) returns HOLD in a round where the short average is above the long *)
(* one both for the series without its last sample and for the full        *)
(* series; it returns BUY in no two consecutive rounds, nor SELL.          *)
(***************************************************************************)
C14_EdgeTriggered ==
    [][(/\ Served("analyze")
        /\ Self.cls = "MovingAverageCrossover"
        /\ Len(RoundPrices') - 1 >= Self.long_window) =>
          LET prices == RoundPrices'
              before == Slice(prices, 0, -1)
              now == LastCall'.ret
          IN /\ ~now.raised
             /\ (ShortAboveLong(Self, before) /\ ShortAboveLong(Self, prices)) =>
                   now.signal.signal = "HOLD"
             /\ (LastOp = "analyze" /\ ~LastCall.ret.raised) =>
                   /\ ~(LastCall.ret.signal.signal = "BUY" /\ now.signal.signal = "BUY")
                   /\ ~(LastCall.ret.signal.signal = "SELL" /\ now.signal.signal = "SELL")]_vars

(***************************************************************************)
(* C15: MovingAverageCrossover.analyze returns HOLD / 'Insufficient data'  *)
(* for every snapshot with fewer than long_window prices, a snapshot with  *)
(* no 'prices' key included, and RSIStrategy.analyze for every snapshot    *)
(* with fewer than period + 1 prices; neither raises, and on a longer      *)
(* history neither gives the insufficient-data reason.                     *)
(***************************************************************************)
C15_InsufficientDataPath ==
    (/\ Len(instance) = 1
     /\ LastOp = "analyze"
     /\ Self.cls \in {"MovingAverageCrossover", "RSIStrategy"}) =>
        LET short == IF Self.cls = "MovingAverageCrossover"
                     THEN Len(RoundPrices) < Self.long_window
                     ELSE Len(RoundPrices) < Self.period + 1
        IN /\ ~LastCall.ret.raised
           /\ IF short
              THEN LastCall.ret.signal = InsufficientData
              ELSE /\ LastCall.ret.signal.reason # "Insufficient data"
                   /\ LastCall.ret.signal.signal \in SignalKinds

\* a MovingAverageCrossover with a positive long window was given a snapshot
\* without the key 'prices' and answered HOLD / 'Insufficient data'
C15_Witness ==
    /\ Len(instance) = 1
    /\ LastOp = "analyze"
    /\ Self.cls = "MovingAverageCrossover"
    /\ Self.long_window >= 1
    /\ "prices" \notin DOMAIN LastCall.market_data
    /\ LastCall.ret = Returned(InsufficientData)
    /\ instance[1].last_signal = Some(InsufficientData)

(***************************************************************************)
(* C16: on at least period + 1 prices RSIStrategy.analyze returns BUY      *)
(* exactly when the RSI of the series is below oversold and the RSI of the *)
(* series without its last price is not, SELL exactly when the RSI is      *)
(* above overbought, the previous one is not and the BUY condition is      *)
(* false, and HOLD otherwise; the previous RSI is the RSI the round before *)
(* reported, so BUY is returned in no two consecutive rounds.              *)
(***************************************************************************)
C16_RsiCrossing ==
    [][(/\ Served("analyze")
        /\ Self.cls = "RSIStrategy"
        /\ Len(RoundPrices') >= Self.period + 1) =>
          LET prices == RoundPrices'
              current_rsi == calculate_rsi(Self, prices)
              prev_rsi == calculate_rsi(Self, Slice(prices, 0, -1))
              buy == /\ Lt(current_rsi, Rat(Self.oversold, 1))
                     /\ Ge(prev_rsi, Rat(Self.oversold, 1))
              sell == /\ Gt(current_rsi, Rat(Self.overbought, 1))
                      /\ Le(prev_rsi, Rat(Self.overbought, 1))
              now == LastCall'.ret
          IN /\ ~now.raised
             /\ now.signal.rsi = current_rsi
             /\ (now.signal.signal = "BUY") <=> buy
             /\ (now.signal.signal = "SELL") <=> (sell /\ ~buy)
             /\ (now.signal.signal = "HOLD") <=> (~buy /\ ~sell)
             /\ (LastOp = "analyze" /\ "rsi" \in DOMAIN LastCall.ret.signal) =>
                   /\ prev_rsi = LastCall.ret.signal.rsi
                   /\ ~(LastCall.ret.signal.signal = "BUY" /\ now.signal.signal = "BUY")]_vars

\* an RSIStrategy returned BUY in its second round, after a round on
\* sufficient history in which the RSI was not below oversold
C16_Witness ==
    /\ Len(instance) = 1
    /\ LastOp = "analyze"
    /\ Self.cls = "RSIStrategy"
    /\ calls_left = MaxRounds - 2
    /\ Len(RoundPrices) >= Self.period + 2
    /\ Self.period >= 1
    /\ LastCall.ret.signal.signal = "BUY"

\* the last k elements of s, none for k <= 0
LastK(s, k) == [i \in 1..k |-> s[Len(s) - k + i]]

\* the floats a and b are the same number
SameFloat(a, b) == ~IsNan(a) /\ ~IsNan(b) /\ a.num * b.den = b.num * a.den

\* the sum of the gains (sign 1) or of the losses (sign -1) among deltas
Moves(deltas, sign) == Sum([i \in 1..Len(deltas) |-> Max2(sign * deltas[i], 0)])

(***************************************************************************)
(* C17: calculate_rsi returns a value in [0, 100] for every price series:  *)
(* 50 when fewer than period + 1 prices are given, 100 when the last       *)
(* `period` deltas contain no loss, and otherwise                          *)
(* 100 - 100 / (1 + avg_gain / avg_loss), that is 100 * G / (G + L) for    *)
(* the sums G and L of the last `period` gains and losses.                 *)
(***************************************************************************)
C17_RsiValue ==
    (Len(instance) = 1 /\ LastOp = "calculate_rsi") =>
        LET prices == LastCall.prices
            rsi == LastCall.ret
            last == LastK(Diff(prices), Self.period)
            G == Moves(last, 1)
            L == Moves(last, -1)
        IN /\ Ge(rsi, Rat(0, 1))
           /\ Le(rsi, Rat(100, 1))
           /\ IF Len(prices) < Self.period + 1 THEN SameFloat(rsi, Rat(50, 1))
              ELSE IF L = 0 THEN SameFloat(rsi, Rat(100, 1))
              ELSE SameFloat(rsi, Rat(100 * G, G + L))

\* every high, low and close of the snapshot is the same value
Flat(data) ==
    /\ {"prices", "highs", "lows"} \subseteq DOMAIN data
    /\ \E v \in 1..MaxPrice :
          \A k \in {"prices", "highs", "lows"} :
              \A i \in 1..Len(data[k]) : data[k][i] = v

(***************************************************************************)
(* C18: for every flat snapshot (every high, low and close the same value) *)
(* with len(prices) >= lookback_period, VolatilityBreakout.analyze         *)
(* computes ATR = 0 and upper_band = lower_band = previous_close, and      *)
(* returns HOLD.                                                           *)
(***************************************************************************)
C18_FlatMarketHolds ==
    (/\ Returns("run_strategies")
     /\ "Volatility Breakout" \in ActiveNames
     /\ market_data \in AlignedSnapshots
     /\ Flat(market_data)
     /\ Len(market_data.prices) >= Pool[strategies["Volatility Breakout"]].lookback_period) =>
        LET outcome == Evaluation("Volatility Breakout")
            previous_close == Rat(At(market_data.prices, -2), 1)
        IN /\ ~outcome.raised
           /\ "Volatility Breakout" \in Keys(LastCall.ret.value)
           /\ outcome.signal.signal = "HOLD"
           /\ SameFloat(outcome.signal.atr, Rat(0, 1))
           /\ SameFloat(outcome.signal.upper_band, previous_close)
           /\ SameFloat(outcome.signal.lower_band, previous_close)

(***************************************************************************)
(* C19: after any sequence of calls every name in the active list is a key *)
(* of the registry and no name is in the active list twice, so that        *)
(* run_strategies, alone or inside get_consensus_signal, never looks up a  *)
(* missing strategy.                                                       *)
(***************************************************************************)
C19_ActiveNamesAreRegistered ==
    /\ \A i \in 1..Len(active_strategies) :
          /\ active_strategies[i] \in DOMAIN strategies
          /\ \A j \in 1..Len(active_strategies) :
                active_strategies[j] = active_strategies[i] => j = i
    /\ LastOp \in {"run_strategies", "get_consensus_signal"} => ~LastCall.ret.raised

\* a strategy was removed while it was active (its own flag is still set) and
\* another strategy stays active
C19_Witness ==
    /\ LastOp = "remove_strategy"
    /\ LastCall.ret = TRUE
    /\ LastCall.strategy_name \notin DOMAIN strategies
    /\ LastCall.strategy_name \notin ActiveNames
    /\ \E o \in Objects : Pool[o].name = LastCall.strategy_name /\ active[o]
    /\ Len(active_strategies) >= 1

(***************************************************************************)
(* C20: after any sequence of manager operations, an add with a colliding  *)
(* name included, every strategy object in the registry has its own active *)
(* flag set if and only if its name is in the active list.                 *)
(***************************************************************************)
C20_ActiveFlagMatchesActiveSet ==
    \A n \in DOMAIN strategies : active[strategies[n]] <=> InList(active_strategies, n)

\* the mapping of signals a run_strategies or get_consensus_signal call gave
SignalsOf(ret) ==
    IF LastOp = "run_strategies" THEN ret.value
    ELSE IF "details" \in DOMAIN ret.value THEN ret.value.details
    ELSE << >>

(***************************************************************************)
(* C21: run_strategies, called directly or by get_consensus_signal, leaves *)
(* the registry, the active list, the stored snapshot and every active     *)
(* flag unchanged; it sets last_signal of exactly the active strategies    *)
(* whose evaluation succeeded, to the signal returned under their name;    *)
(* every other strategy keeps its last_signal, and no other call of the    *)
(* manager changes a last_signal.                                          *)
(***************************************************************************)
C21_RunFrame ==
    [][/\ (Served("run_strategies") \/ Served("get_consensus_signal")) =>
            LET returned == SignalsOf(LastCall.ret)'
            IN /\ ~LastCall'.ret.raised
               /\ UNCHANGED <<strategies, active_strategies, market_data,
                              last_update, active>>
               /\ Keys(returned) = IF NoMarketData(Manager) THEN {} ELSE Succeeding
               /\ \A o \in Objects :
                     LET names == {n \in Keys(returned) : strategies[n] = o}
                     IN IF names = {}
                        THEN last_signal'[o] = last_signal[o]
                        ELSE \A n \in names :
                                last_signal'[o] = Some(Lookup(returned, n))
       /\ (/\ calls_left' # calls_left
           /\ LastOp' \notin {"run_strategies", "get_consensus_signal"}) =>
               UNCHANGED last_signal]_vars

\* a round on stored data in which an active strategy raised and kept the
\* signal of an earlier round
C21_Witness ==
    /\ Returns("run_strategies")
    /\ ~NoMarketData(Manager)
    /\ \E n \in ActiveNames :
          Evaluation(n).raised /\ last_signal[strategies[n]] # None

(***************************************************************************)
(* C22: a strategy's registry key is fixed by its class and a 'name' entry *)
(* of its config does not rename it, so create_default_strategies on an    *)
(* empty manager, which adds five strategies, ends with exactly the three  *)
(* names 'MA Crossover', 'RSI Strategy' and 'Volatility Breakout'; the     *)
(* entries that survive are the MovingAverageCrossover with windows 20/50  *)
(* and the RSIStrategy with period 7 and thresholds 25/75, and the active  *)
(* list stays empty.                                                       *)
(***************************************************************************)
C22_DefaultsCollide ==
    [][(/\ Served("create_default_strategies")
        /\ DOMAIN strategies = {}
        /\ active_strategies = << >>) =>
          LET ma == Pool[strategies'["MA Crossover"]]
              rsi == Pool[strategies'["RSI Strategy"]]
              vb == Pool[strategies'["Volatility Breakout"]]
          IN /\ LastCall'.ret = None
             /\ DOMAIN strategies' = {"MA Crossover", "RSI Strategy", "Volatility Breakout"}
             /\ ma.cls = "MovingAverageCrossover"
             /\ ma.short_window = 20 /\ ma.long_window = 50
             /\ ma.config = [name |-> "MA Crossover Medium"]
             /\ rsi.cls = "RSIStrategy"
             /\ rsi.period = 7 /\ rsi.oversold = 25 /\ rsi.overbought = 75
             /\ rsi.config = [name |-> "RSI Aggressive"]
             /\ vb.cls = "VolatilityBreakout"
             /\ active_strategies' = << >>
             /\ \A n \in DOMAIN strategies' : ~active'[strategies'[n]]
             /\ UNCHANGED <<active, last_signal, market_data, last_update>>]_vars

\* create_default_strategies was the first call on a fresh manager and left
\* three names in the registry
C22_Witness ==
    /\ LastOp = "create_default_strategies"
    /\ calls_left = MaxCallsWithDefaults - 1
    /\ Cardinality(DOMAIN strategies) = 3
    /\ active_strategies = << >>

====
